---- MODULE Spec2Model ----
(***************************************************************************)
(* The two whole-slide image viewers of "Image Navigation":                *)
(*   GridOmeroOpen.py  WholeSlideImageViewer  (app = "grid")               *)
(*   MapOmero.py       WSITrackingViewer      (app = "map")                *)
(* Every Tk callback runs to completion before the next one starts, so one *)
(* action is one whole handler.  An exception that escapes a handler is    *)
(* caught by Tk's callback wrapper: the assignments made before the raise  *)
(* stay, the rest of the handler is skipped.                               *)
(*                                                                         *)
(* Python floats are modelled as exact rationals.  zoom is a reduced pair  *)
(* <<numerator, denominator>>; an offset is a mixed number                 *)
(* [i, n, d] = i + n/d with 0 <= n < d and gcd(n, d) = 1.                  *)
(***************************************************************************)
EXTENDS Integers, Sequences, FiniteSets, TLC

(* ------------------------------ bounds -------------------------------- *)
\* offset-setting events (pan, go-to-sector, map click) per loaded image
MaxNav == 1
\* zoom events per loaded image in a run that also moves the view; a run
\* that leaves the view at its origin zooms without limit
MaxZoomSteps == 2
\* largest denominator an offset may take (keeps the arithmetic in 32 bits)
MaxDen == 400000000

(* ------------------------- program constants -------------------------- *)
DefaultGridSize == 5000
grid_cell_size == 100
ThumbBox == 290
MapCenter == 150
tracking_levels == <<10, 40, 60, 80>>
GridSizePresets == {1000, 2000, 5000, 10000}
QuickZoomPercents == {10, 40, 60, 80}
ZoomMax == <<10, 1>>
ZoomMin == <<1, 20>>

(* --------------------------- rational helpers ------------------------- *)
RECURSIVE Gcd(_, _)
Gcd(a, b) == IF b = 0 THEN a ELSE Gcd(b, a % b)

Min(a, b) == IF a <= b THEN a ELSE b
Max(a, b) == IF a >= b THEN a ELSE b

\* the mixed number p/q (q > 0)
Frac(p, q) ==
    LET r == p % q
        g == Gcd(q, r)
    IN  [i |-> p \div q, n |-> r \div g, d |-> q \div g]

IntQ(m) == [i |-> m, n |-> 0, d |-> 1]

\* a/b < c/d for a, c >= 0 and b, d > 0, without cross-multiplying
RECURSIVE FracLess(_, _, _, _)
FracLess(a, b, c, d) ==
    LET qa == a \div b
        qc == c \div d
        ra == a % b
        rc == c % d
    IN  IF qa # qc THEN qa < qc
        ELSE IF rc = 0 THEN FALSE
        ELSE IF ra = 0 THEN TRUE
        ELSE FracLess(d, rc, b, ra)

\* whether x + y can be written with a denominator within MaxDen
CanAdd(x, y) == (x.d \div Gcd(x.d, y.d)) <= MaxDen \div y.d

QAdd(x, y) ==
    LET g == Gcd(x.d, y.d)
        l == (x.d \div g) * y.d
        s == x.n * (l \div x.d) + y.n * (l \div y.d)
        f == Frac(s, l)
    IN  [i |-> x.i + y.i + f.i, n |-> f.n, d |-> f.d]

\* floor(x + y) for mixed numbers, whatever their denominators
FloorSum(x, y) ==
    x.i + y.i + (IF y.n = 0 \/ FracLess(x.n, x.d, y.d - y.n, y.d) THEN 0 ELSE 1)

QLeInt(x, m) == x.i < m \/ (x.i = m /\ x.n = 0)

\* Python int(): truncation toward zero
Trunc(x) == IF x.i < 0 /\ x.n # 0 THEN x.i + 1 ELSE x.i

\* zoom arithmetic on reduced pairs
ZReduce(n, d) == LET g == Gcd(n, d) IN <<n \div g, d \div g>>
ZLess(a, b) == FracLess(a[1], a[2], b[1], b[2])

ZoomTimes15(z) == ZReduce(3 * z[1], 2 * z[2])
ZoomOver15(z) == ZReduce(2 * z[1], 3 * z[2])

(* ------------------------------ inputs -------------------------------- *)
\* OpenSlide is taken to be installed; without it every load takes the flat
\* path, which the files below with an unrecognised extension also take.
OPENSLIDE_AVAILABLE == TRUE

\* What the file dialog can return.  wsi: the extension is one of the
\* whole-slide extensions; pyr: what openslide.OpenSlide(path) does;
\* flat: what the PIL/tifffile decode does; dims: the image size;
\* downs: level_downsamples of the pyramid.
GridFiles ==
    { [name |-> "scan.png", wsi |-> FALSE, pyr |-> "none", flat |-> "ok",
       dims |-> <<20000, 15000>>, downs |-> <<>>],
      [name |-> "slide.svs", wsi |-> TRUE, pyr |-> "ok", flat |-> "fail",
       dims |-> <<2400, 1700>>, downs |-> <<1, 2, 8, 32>>],
      [name |-> "plain.tif", wsi |-> TRUE, pyr |-> "OpenSlideError", flat |-> "ok",
       dims |-> <<20000, 15000>>, downs |-> <<>>],
      [name |-> "broken.tif", wsi |-> TRUE, pyr |-> "OpenSlideError", flat |-> "fail",
       dims |-> <<0, 0>>, downs |-> <<>>],
      [name |-> "odd.svs", wsi |-> TRUE, pyr |-> "Exception", flat |-> "ok",
       dims |-> <<2400, 1700>>, downs |-> <<>>] }

MapFiles ==
    { [name |-> "scan.png", wsi |-> FALSE, pyr |-> "none", flat |-> "ok",
       dims |-> <<300, 100>>, downs |-> <<>>],
      [name |-> "slide.svs", wsi |-> TRUE, pyr |-> "ok", flat |-> "fail",
       dims |-> <<320, 200>>, downs |-> <<1, 4, 16>>],
      [name |-> "plain.tif", wsi |-> TRUE, pyr |-> "OpenSlideError", flat |-> "ok",
       dims |-> <<300, 100>>, downs |-> <<>>],
      [name |-> "broken.tif", wsi |-> TRUE, pyr |-> "OpenSlideError", flat |-> "fail",
       dims |-> <<0, 0>>, downs |-> <<>>],
      [name |-> "odd.svs", wsi |-> TRUE, pyr |-> "Exception", flat |-> "ok",
       dims |-> <<320, 200>>, downs |-> <<>>] }

Files(a) == IF a = "grid" THEN GridFiles ELSE MapFiles

\* canvas.winfo_width(), canvas.winfo_height() of the laid-out window
CanvasOf(a) == IF a = "grid" THEN <<800, 600>> ELSE <<120, 80>>

\* (pan_start - e) of a drag, in canvas pixels
PanDeltas(a) ==
    IF a = "grid" THEN {<<300, 0>>, <<-7, 450>>} ELSE {<<50, 30>>, <<-45, -7>>}

\* what the user typed in the two spinboxes
SectorInputs == {<<2, 1>>, <<0, 0>>, <<3, 2>>, <<4, 1>>, <<1, -1>>}

\* click positions on the 300 x 300 map canvas
ClickPoints == {<<150, 150>>, <<20, 140>>, <<280, 190>>}

(* ------------------------------- state -------------------------------- *)
VARIABLES
    app,               \* which viewer runs
    slide,             \* an OpenSlide object is held
    image,             \* the PIL image: [some, width, height]
    use_openslide, slide_dimensions, level_count, level_dimensions,
    level_downsamples,
    zoom, offset_x, offset_y,
    show_grid, grid_size, max_cols, max_rows,          \* grid viewer
    tracking_grids, map_thumbnail, map_scale_x, map_scale_y,  \* map viewer
    open_handles,      \* OpenSlide handles opened and not closed
    peak_handles,      \* most handles open at once during the last handler
    last_read,         \* the read_region call it issued
    nav,               \* offset-setting events since the image was loaded
    zsteps             \* zoom events since the image was loaded (saturating)

vars == <<app, slide, image, use_openslide, slide_dimensions, level_count,
          level_dimensions, level_downsamples, zoom, offset_x, offset_y,
          show_grid, grid_size, max_cols, max_rows, tracking_grids,
          map_thumbnail, map_scale_x, map_scale_y, open_handles,
          peak_handles, last_read, nav, zsteps>>

NoImage == [some |-> FALSE, width |-> 0, height |-> 0]
NoGrid == [alloc |-> FALSE, h |-> 0, w |-> 0, cells |-> {}]
NoThumb == [some |-> FALSE, width |-> 0, height |-> 0]
NoRead ==
    [issued |-> FALSE, raises |-> FALSE, x |-> IntQ(0), y |-> IntQ(0),
     width |-> 0, height |-> 0, level |-> 0, loc |-> <<0, 0>>,
     size |-> <<0, 0>>, target |-> <<0, 0>>]

\* the object the handlers call self
Self ==
    [app |-> app, slide |-> slide, image |-> image,
     use_openslide |-> use_openslide, slide_dimensions |-> slide_dimensions,
     level_count |-> level_count, level_dimensions |-> level_dimensions,
     level_downsamples |-> level_downsamples,
     zoom |-> zoom, offset_x |-> offset_x, offset_y |-> offset_y,
     show_grid |-> show_grid, grid_size |-> grid_size,
     max_cols |-> max_cols, max_rows |-> max_rows,
     tracking_grids |-> tracking_grids, map_thumbnail |-> map_thumbnail,
     map_scale_x |-> map_scale_x, map_scale_y |-> map_scale_y,
     open_handles |-> open_handles,
     peak_handles |-> peak_handles,
     last_read |-> last_read,
     report |-> "none",     \* the message box the handler shows
     map_drawn |-> FALSE,   \* the handler drew the navigation map
     overlay |-> {},        \* the overlay rectangles of that map
     raised |-> FALSE]      \* an exception is propagating out of the handler

\* the handler leaves the object as s
Becomes(s) ==
    /\ slide' = s.slide
    /\ image' = s.image
    /\ use_openslide' = s.use_openslide
    /\ slide_dimensions' = s.slide_dimensions
    /\ level_count' = s.level_count
    /\ level_dimensions' = s.level_dimensions
    /\ level_downsamples' = s.level_downsamples
    /\ zoom' = s.zoom
    /\ offset_x' = s.offset_x
    /\ offset_y' = s.offset_y
    /\ show_grid' = s.show_grid
    /\ grid_size' = s.grid_size
    /\ max_cols' = s.max_cols
    /\ max_rows' = s.max_rows
    /\ tracking_grids' = s.tracking_grids
    /\ map_thumbnail' = s.map_thumbnail
    /\ map_scale_x' = s.map_scale_x
    /\ map_scale_y' = s.map_scale_y
    /\ open_handles' = s.open_handles
    /\ peak_handles' = s.peak_handles
    /\ last_read' = s.last_read

\* the object as a handler finds it: no read issued yet
Entry == [Self EXCEPT !.last_read = NoRead, !.peak_handles = open_handles]

Canvas == CanvasOf(app)

Init ==
    /\ app \in {"grid", "map"}
    /\ slide = FALSE
    /\ image = NoImage
    /\ use_openslide = FALSE
    /\ slide_dimensions = <<0, 0>>
    /\ level_count = 0
    /\ level_dimensions = <<>>
    /\ level_downsamples = <<>>
    /\ zoom = <<1, 1>>
    /\ offset_x = IntQ(0)
    /\ offset_y = IntQ(0)
    /\ show_grid = TRUE
    /\ grid_size = DefaultGridSize
    /\ max_cols = 0
    /\ max_rows = 0
    /\ tracking_grids = [p \in {10, 40, 60, 80} |-> NoGrid]
    /\ map_thumbnail = NoThumb
    /\ map_scale_x = <<1, 1>>
    /\ map_scale_y = <<1, 1>>
    /\ open_handles = 0
    /\ peak_handles = 0
    /\ last_read = NoRead
    /\ nav = 0
    /\ zsteps = 0

(* --------------------------- level selector --------------------------- *)
\* a selector that compares 1/downsample with zoom (downsamples divide 32)
LevelDiffInverse(downsample, z) ==
    LET v == (32 \div downsample) * z[2] - 32 * z[1] IN IF v < 0 THEN -v ELSE v

\* abs(downsample - 1/zoom), scaled by the numerator of zoom
LevelDiff(downsample, z) ==
    LET v == downsample * z[1] - z[2] IN IF v < 0 THEN -v ELSE v

\* a scan in which a later level also replaces an equally good one
ScanTakesOrEqual(diff, min_diff) == diff <= min_diff

\* the test of the scan: a later level replaces the best one so far
ScanTakes(diff, min_diff) == diff < min_diff

\* the for loop of get_best_level, from index level on
RECURSIVE BestLevelScan(_, _, _, _, _)
BestLevelScan(downs, z, level, best_level, min_diff) ==
    IF level >= Len(downs) THEN best_level
    ELSE LET diff == LevelDiff(downs[level + 1], z)
         IN  IF ScanTakes(diff, min_diff)
             THEN BestLevelScan(downs, z, level + 1, level, diff)
             ELSE BestLevelScan(downs, z, level + 1, best_level, min_diff)

get_best_level(self, z) ==
    IF ~self.use_openslide THEN 0
    ELSE BestLevelScan(self.level_downsamples, z, 0, 0,
                       LevelDiff(self.level_downsamples[1], z))

(* ---------------------------- region reads ---------------------------- *)
\* int(q * zoom) for a mixed number q >= 0
TimesZoomTrunc(q, z) ==
    IF q.n = 0 THEN (q.i * z[1]) \div z[2]
    ELSE ((q.i * q.d + q.n) * z[1]) \div (q.d * z[2])

\* int(x2) - int(x) and int((x2 - x) * zoom) of the flat path, one axis
FlatAxis(x, width, image_dim, z) ==
    LET far == [x EXCEPT !.i = @ + width]
        inside == QLeInt(far, image_dim)
        x2 == IF inside THEN far ELSE IntQ(image_dim)
        span == IF inside THEN IntQ(width)
                ELSE Frac((image_dim - x.i) * x.d - x.n, x.d)
    IN  <<Trunc(x2) - Trunc(x), TimesZoomTrunc(span, z)>>

read_region(self, x, y, width, height, z) ==
    LET call == [NoRead EXCEPT !.issued = TRUE, !.x = x, !.y = y,
                               !.width = width, !.height = height]
    IN  IF self.use_openslide
        THEN LET level == get_best_level(self, z)
                 downsample == self.level_downsamples[level + 1]
             IN  [call EXCEPT !.level = level,
                              !.loc = <<Trunc(x), Trunc(y)>>,
                              !.size = <<width \div downsample, height \div downsample>>,
                              !.target = <<(width * z[1]) \div z[2],
                                           (height * z[1]) \div z[2]>>]
        ELSE IF ~self.image.some
        THEN [call EXCEPT !.raises = TRUE]   \* None has no attribute width
        ELSE LET ax == FlatAxis(x, width, self.image.width, z)
                 ay == FlatAxis(y, height, self.image.height, z)
             IN  [call EXCEPT !.loc = <<Trunc(x), Trunc(y)>>,
                              !.size = <<ax[1], ay[1]>>,
                              !.target = <<ax[2], ay[2]>>]

(* -------------------------- tracking recorder ------------------------- *)
initialize_tracking(self) ==
    LET grid_w == (self.slide_dimensions[1] \div grid_cell_size) + 1
        grid_h == (self.slide_dimensions[2] \div grid_cell_size) + 1
    IN  [self EXCEPT !.tracking_grids =
            [p \in DOMAIN @ |-> [alloc |-> TRUE, h |-> grid_h, w |-> grid_w, cells |-> {}]]]

Abs(v) == IF v < 0 THEN -v ELSE v

\* min(tracking_levels, key=...): the first of the smallest keys
RECURSIVE MinByKey(_, _, _, _)
MinByKey(levels, zoom_percent, k, best) ==
    IF k > Len(levels) THEN best
    ELSE MinByKey(levels, zoom_percent, k + 1,
                  IF Abs(levels[k] - zoom_percent) < Abs(best - zoom_percent)
                  THEN levels[k] ELSE best)

get_tracking_level(zoom_percent) ==
    MinByKey(tracking_levels, zoom_percent, 2, tracking_levels[1])

\* int(self.zoom * 100)
ZoomPercent(z) == (100 * z[1]) \div z[2]

\* a slice that stops before grid_y2 and grid_x2
SliceExclusive(grid_x1, grid_y1, grid_x2, grid_y2) ==
    {<<gx, gy>> : gx \in grid_x1..(grid_x2 - 1), gy \in grid_y1..(grid_y2 - 1)}

\* the slice [grid_y1:grid_y2+1, grid_x1:grid_x2+1], cells as <<column, row>>
Slice(grid_x1, grid_y1, grid_x2, grid_y2) ==
    {<<gx, gy>> : gx \in grid_x1..grid_x2, gy \in grid_y1..grid_y2}

\* an assignment that replaces the grid by the slice
MarkCellsOnly(cells, slice) == slice

\* grid[slice] = True: the cells of the slice become visited
MarkCells(cells, slice) == cells \cup slice

mark_visited(self) ==
    IF self.slide_dimensions[1] = 0 THEN self
    ELSE
    LET z == self.zoom
        tracking_level == get_tracking_level(ZoomPercent(z))
        grid == self.tracking_grids[tracking_level]
        w == Max(CanvasOf(self.app)[1], 1)
        h == Max(CanvasOf(self.app)[2], 1)
        view_w == Frac(w * z[2], z[1])
        view_h == Frac(h * z[2], z[1])
        x1 == Trunc(self.offset_x)
        y1 == Trunc(self.offset_y)
        x2 == FloorSum(self.offset_x, view_w)
        y2 == FloorSum(self.offset_y, view_h)
        grid_x1 == Max(0, x1 \div grid_cell_size)
        grid_y1 == Max(0, y1 \div grid_cell_size)
        grid_x2 == Min(grid.w - 1, x2 \div grid_cell_size)
        grid_y2 == Min(grid.h - 1, y2 \div grid_cell_size)
    IN  [self EXCEPT !.tracking_grids[tracking_level].cells =
                        MarkCells(@, Slice(grid_x1, grid_y1, grid_x2, grid_y2))]

(* ----------------------------- navigation map ------------------------- *)
\* Image.thumbnail((290, 290)): the size PIL gives an image of w x h
ThumbnailSize(w, h) ==
    IF ThumbBox >= w /\ ThumbBox >= h THEN <<w, h>>
    ELSE IF h >= w
    THEN LET f == (ThumbBox * w) \div h
             c == IF (ThumbBox * w) % h = 0 THEN f ELSE f + 1
             n == IF 2 * ThumbBox * w - 2 * f * h <= 2 * c * h - 2 * ThumbBox * w
                  THEN f ELSE c
         IN  <<Max(n, 1), ThumbBox>>
    ELSE LET f == (ThumbBox * h) \div w
             c == IF (ThumbBox * h) % w = 0 THEN f ELSE f + 1
             n == IF f = 0 THEN 0
                  ELSE IF ThumbBox * h * (c + f) <= 2 * w * f * c THEN f ELSE c
         IN  <<ThumbBox, Max(n, 1)>>

\* the rectangles drawn on the overlay: one per visited cell of each grid
TrackingOverlay(grids) ==
    UNION {{<<percent, cell>> : cell \in grids[percent].cells} :
              percent \in {p \in DOMAIN grids : grids[p].alloc}}

\* offset * scale for a mixed number and a scale pair
Scaled(x, s) == QAdd(Frac(x.i * s[1], s[2]), Frac(x.n * s[1], x.d * s[2]))

\* 150 - thumbnail extent / 2: where the thumbnail starts on the map canvas
ThumbnailStart(extent) == Frac(2 * MapCenter - extent, 2)

\* the rectangle create_rectangle is called with; the canvas item is no
\* part of the viewer's data, and nothing is drawn without image or thumbnail
update_viewport_rect(self) ==
    IF self.slide_dimensions[1] = 0 \/ ~self.map_thumbnail.some
    THEN [some |-> FALSE]
    ELSE
    LET w == Max(CanvasOf(self.app)[1], 1)
        h == Max(CanvasOf(self.app)[2], 1)
        x1 == QAdd(Scaled(self.offset_x, self.map_scale_x),
                   ThumbnailStart(self.map_thumbnail.width))
        y1 == QAdd(Scaled(self.offset_y, self.map_scale_y),
                   ThumbnailStart(self.map_thumbnail.height))
        view_w == Frac(w * self.zoom[2], self.zoom[1])
        view_h == Frac(h * self.zoom[2], self.zoom[1])
        x2 == QAdd(x1, Scaled(view_w, self.map_scale_x))
        y2 == QAdd(y1, Scaled(view_h, self.map_scale_y))
    IN  [some |-> TRUE, x1 |-> x1, y1 |-> y1, x2 |-> x2, y2 |-> y2]

\* its last statement draws update_viewport_rect of the object it leaves
update_map(self) ==
    IF self.slide_dimensions[1] = 0 THEN self
    ELSE IF ~self.use_openslide /\ ~self.image.some
    THEN [self EXCEPT !.raised = TRUE]       \* None has no attribute copy
    ELSE
    LET src == IF self.use_openslide
               THEN self.level_dimensions[self.level_count]
               ELSE <<self.image.width, self.image.height>>
        thumb == ThumbnailSize(src[1], src[2])
    IN  [self EXCEPT
            !.map_scale_x = ZReduce(thumb[1], self.slide_dimensions[1]),
            !.map_scale_y = ZReduce(thumb[2], self.slide_dimensions[2]),
            !.map_thumbnail = [some |-> TRUE, width |-> thumb[1], height |-> thumb[2]],
            !.map_drawn = TRUE,
            !.overlay = TrackingOverlay(self.tracking_grids)]

(* ------------------------------ viewport ------------------------------ *)
\* a clamp without the upper limit
ClampLowerOnly(offset, hi) == IF offset.i < 0 THEN IntQ(0) ELSE offset

\* a clamp whose upper limit is one pixel too far
ClampOnePast(offset, hi) ==
    IF QLeInt(offset, hi + 1)
    THEN (IF offset.i < 0 THEN IntQ(0) ELSE offset)
    ELSE IntQ(Max(0, hi + 1))

\* max(0, min(offset, hi))
Clamp(offset, hi) ==
    IF QLeInt(offset, hi)
    THEN (IF offset.i < 0 THEN IntQ(0) ELSE offset)
    ELSE IntQ(Max(0, hi))

\* int(canvas / zoom)
ViewSize(canvas, z) == (canvas * z[2]) \div z[1]

update_view(self) ==
    IF self.slide_dimensions[1] = 0 THEN self
    ELSE
    LET w == Max(CanvasOf(self.app)[1], 1)
        h == Max(CanvasOf(self.app)[2], 1)
        max_w == self.slide_dimensions[1]
        max_h == self.slide_dimensions[2]
        view_w == Min(ViewSize(w, self.zoom), max_w)
        view_h == Min(ViewSize(h, self.zoom), max_h)
        clamped == [self EXCEPT !.offset_x = Clamp(@, max_w - view_w),
                                !.offset_y = Clamp(@, max_h - view_h)]
        marked == IF self.app = "map" THEN mark_visited(clamped) ELSE clamped
        region == read_region(marked, marked.offset_x, marked.offset_y,
                              view_w, view_h, marked.zoom)
        read == [marked EXCEPT !.last_read = region, !.raised = region.raises]
    IN  IF read.raised THEN read
        ELSE IF self.app = "map" THEN update_map(read)
        ELSE read

(* ------------------------------ handlers ------------------------------ *)
reset(self) ==
    update_view([self EXCEPT !.zoom = <<1, 1>>,
                             !.offset_x = IntQ(0), !.offset_y = IntQ(0)])

\* a count that drops the last, partial sector
SectorCountFloor(dim, size) == dim \div size

\* (w + self.grid_size - 1) // self.grid_size
SectorCount(dim, size) == (dim + size - 1) \div size

\* the grid viewer's update_info; the map viewer's only writes labels
update_info(self) ==
    IF self.app = "map" \/ self.slide_dimensions[1] = 0 THEN self
    ELSE [self EXCEPT
            !.max_cols = SectorCount(self.slide_dimensions[1], self.grid_size),
            !.max_rows = SectorCount(self.slide_dimensions[2], self.grid_size)]

\* level_dimensions as OpenSlide reports them for file f
LevelDimensions(f) ==
    [k \in 1..Len(f.downs) |-> <<f.dims[1] \div f.downs[k], f.dims[2] \div f.downs[k]>>]

\* except Exception: showerror, status label
LoadError(self) == [self EXCEPT !.raised = FALSE, !.report = "load_error"]

\* if self.slide: self.slide.close(); then the three fields are cleared
CloseBeforeOpen(self) ==
    [self EXCEPT !.open_handles = IF self.slide THEN @ - 1 ELSE @,
                 !.slide = FALSE, !.image = NoImage, !.use_openslide = FALSE]

\* load_image once the dialog returned file f
load_image(self, f) ==
    LET closed == CloseBeforeOpen(self)
        try_openslide == OPENSLIDE_AVAILABLE /\ f.wsi
        opened ==
            IF try_openslide /\ f.pyr = "ok"
            THEN [closed EXCEPT !.slide = TRUE,
                                !.open_handles = @ + 1,
                                !.peak_handles = Max(@, closed.open_handles + 1),
                                !.use_openslide = TRUE,
                                !.slide_dimensions = f.dims,
                                !.level_count = Len(f.downs),
                                !.level_dimensions = LevelDimensions(f),
                                !.level_downsamples = f.downs]
            ELSE closed
        decoded ==
            [opened EXCEPT !.image = [some |-> TRUE, width |-> f.dims[1],
                                      height |-> f.dims[2]],
                           !.slide_dimensions = f.dims]
        loaded == IF opened.use_openslide THEN opened ELSE decoded
        tracked == IF self.app = "map" THEN initialize_tracking(loaded) ELSE loaded
        shown == reset(update_info(tracked))
    IN  IF try_openslide /\ f.pyr = "Exception" THEN LoadError(closed)
        ELSE IF ~opened.use_openslide /\ f.flat # "ok" THEN LoadError(opened)
        ELSE IF shown.raised THEN LoadError(shown)
        ELSE [shown EXCEPT !.report = "success"]

\* zoom steps without the cap and without the floor
ZoomInStepUncapped(z) == ZoomTimes15(z)

ZoomInStep(z) ==
    LET t == ZoomTimes15(z) IN IF ZLess(ZoomMax, t) THEN ZoomMax ELSE t

ZoomOutStep(z) ==
    LET t == ZoomOver15(z) IN IF ZLess(t, ZoomMin) THEN ZoomMin ELSE t

zoom_in(self) ==
    IF self.slide_dimensions[1] # 0
    THEN update_view([self EXCEPT !.zoom = ZoomInStep(@)])
    ELSE self

zoom_out(self) ==
    IF self.slide_dimensions[1] # 0
    THEN update_view([self EXCEPT !.zoom = ZoomOutStep(@)])
    ELSE self

\* a conversion that multiplies by the zoom instead of dividing
TimesZoom(delta, z) == Frac(delta * z[1], z[2])

\* delta / zoom, a canvas distance in image pixels
OverZoom(delta, z) == Frac(delta * z[2], z[1])

\* Tk delivers <B1-Motion> only after the <ButtonPress-1> whose handler sets
\* pan_start, so hasattr(self, 'pan_start') holds; d is pan_start - e.
pan(self, d) ==
    IF self.slide_dimensions[1] # 0
    THEN update_view([self EXCEPT !.offset_x = QAdd(@, OverZoom(d[1], self.zoom)),
                                  !.offset_y = QAdd(@, OverZoom(d[2], self.zoom))])
    ELSE self

toggle_grid(self) == update_view([self EXCEPT !.show_grid = ~@])

set_grid_size(self, size) ==
    update_view(update_info([self EXCEPT !.grid_size = size]))

\* an offset that subtracts the whole view instead of half of it
CentreOffsetWholeView(c2, canvas, z) ==
    QAdd(Frac(c2, 2), Frac(-(canvas * z[2]), z[1]))

\* c - canvas/zoom/2 for a centre c2/2
CentreOffset(c2, canvas, z) ==
    LET half == Frac(-(canvas * z[2]), 2 * z[1])
        c == Frac(c2, 2)
    IN  QAdd(c, half)

\* a range test that lets col = max_cols and row = max_rows through
SectorInRangeInclusive(self, col, row) ==
    ~(col < 0 \/ col > self.max_cols \/ row < 0 \/ row > self.max_rows)

SectorInRange(self, col, row) ==
    ~(col < 0 \/ col >= self.max_cols \/ row < 0 \/ row >= self.max_rows)

\* numeric: int() accepts both spinbox texts
goto_sector(self, numeric, col, row) ==
    IF self.slide_dimensions[1] = 0 THEN [self EXCEPT !.report = "load_first"]
    ELSE IF ~numeric THEN [self EXCEPT !.report = "invalid_values"]
    ELSE IF ~SectorInRange(self, col, row) THEN [self EXCEPT !.report = "bounds_error"]
    ELSE LET w == Max(CanvasOf(self.app)[1], 1)
             h == Max(CanvasOf(self.app)[2], 1)
         IN  update_view([self EXCEPT
                !.offset_x = CentreOffset(2 * col * self.grid_size + self.grid_size,
                                          w, self.zoom),
                !.offset_y = CentreOffset(2 * row * self.grid_size + self.grid_size,
                                          h, self.zoom)])

\* a mapping that takes the canvas point for the thumbnail point
MapToImageFromCanvasOrigin(at, extent, scale) == Frac(at * scale[2], scale[1])

\* (event.x - (150 - thumbnail width / 2)) / map_scale_x
MapToImage(at, extent, scale) ==
    Frac((2 * at - 2 * MapCenter + extent) * scale[2], 2 * scale[1])

click_map(self, e) ==
    IF self.slide_dimensions[1] = 0 \/ ~self.map_thumbnail.some THEN self
    ELSE LET w == Max(CanvasOf(self.app)[1], 1)
             h == Max(CanvasOf(self.app)[2], 1)
             img_x == MapToImage(e[1], self.map_thumbnail.width, self.map_scale_x)
             img_y == MapToImage(e[2], self.map_thumbnail.height, self.map_scale_y)
         IN  update_view([self EXCEPT
                !.offset_x = QAdd(img_x, Frac(-(w * self.zoom[2]), 2 * self.zoom[1])),
                !.offset_y = QAdd(img_y, Frac(-(h * self.zoom[2]), 2 * self.zoom[1]))])

set_zoom_percent(self, percent) ==
    IF self.slide_dimensions[1] # 0
    THEN update_view([self EXCEPT !.zoom = ZReduce(percent, 100)])
    ELSE self

\* a fill that leaves the grid as it is
FillNothing(grid) == grid

\* grid.fill(False)
FillFalse(grid) == [grid EXCEPT !.cells = {}]

clear_tracking(self) ==
    LET filled == [self EXCEPT !.tracking_grids =
                      [p \in DOMAIN @ |-> IF @[p].alloc THEN FillFalse(@[p]) ELSE @[p]]]
        mapped == update_map(filled)
    IN  IF mapped.raised THEN mapped ELSE [mapped EXCEPT !.report = "cleared"]

(* ------------------------------- events ------------------------------- *)
\* the handler ran to its end (or to its raise) and left the object as s
Done(s) ==
    /\ \E t \in {s} : Becomes(t)
    /\ UNCHANGED app

Loaded == slide_dimensions[1] # 0

\* a zoom event is counted while an image is loaded
CountZoom ==
    /\ nav = 0 \/ zsteps < MaxZoomSteps \/ ~Loaded
    /\ zsteps' = IF Loaded THEN Min(zsteps + 1, MaxZoomSteps + 1) ELSE zsteps
    /\ UNCHANGED nav

\* an event that sets the offset is counted
CountNav ==
    /\ nav < MaxNav
    /\ zsteps <= MaxZoomSteps
    /\ nav' = nav + 1
    /\ UNCHANGED zsteps

LoadImage ==
    \E f \in Files(app) :
        \E t \in {load_image(Entry, f)} :
            /\ Done(t)
            /\ nav' = IF t.report = "success" THEN 0 ELSE nav
            /\ zsteps' = IF t.report = "success" THEN 0 ELSE zsteps

LoadCancelled ==
    /\ Done(Entry)
    /\ UNCHANGED <<nav, zsteps>>

ZoomIn ==
    /\ CountZoom
    /\ Done(zoom_in(Entry))

ZoomOut ==
    /\ CountZoom
    /\ Done(zoom_out(Entry))

Reset ==
    /\ Done(reset(Entry))
    /\ UNCHANGED <<nav, zsteps>>

\* a drag that moves the view
Pan ==
    \E d \in PanDeltas(app) :
        /\ Loaded
        /\ CountNav
        /\ CanAdd(offset_x, OverZoom(d[1], zoom))
        /\ CanAdd(offset_y, OverZoom(d[2], zoom))
        /\ Done(pan(Entry, d))

\* a drag with no image
PanIgnored ==
    \E d \in PanDeltas(app) :
        /\ ~Loaded
        /\ Done(pan(Entry, d))
        /\ UNCHANGED <<nav, zsteps>>

ToggleGrid ==
    /\ app = "grid"
    /\ Done(toggle_grid(Entry))
    /\ UNCHANGED <<nav, zsteps>>

SetGridSize ==
    \E size \in GridSizePresets :
        /\ app = "grid"
        /\ Done(set_grid_size(Entry, size))
        /\ UNCHANGED <<nav, zsteps>>

\* go to a sector that exists
GotoSector ==
    \E in \in SectorInputs :
        /\ app = "grid"
        /\ Loaded /\ SectorInRange(Self, in[1], in[2])
        /\ CountNav
        /\ Done(goto_sector(Entry, TRUE, in[1], in[2]))

\* go to sector with no image, or to a sector that does not exist
GotoSectorRefused ==
    \E in \in SectorInputs :
        /\ app = "grid"
        /\ ~(Loaded /\ SectorInRange(Self, in[1], in[2]))
        /\ Done(goto_sector(Entry, TRUE, in[1], in[2]))
        /\ UNCHANGED <<nav, zsteps>>

\* go to sector with text that is no number
GotoSectorInvalid ==
    /\ app = "grid"
    /\ Done(goto_sector(Entry, FALSE, 0, 0))
    /\ UNCHANGED <<nav, zsteps>>

ClickMap ==
    \E e \in ClickPoints :
        /\ app = "map"
        /\ Loaded /\ map_thumbnail.some
        /\ CountNav
        /\ Done(click_map(Entry, e))

ClickMapIgnored ==
    \E e \in ClickPoints :
        /\ app = "map"
        /\ ~(Loaded /\ map_thumbnail.some)
        /\ Done(click_map(Entry, e))
        /\ UNCHANGED <<nav, zsteps>>

SetZoomPercent ==
    \E percent \in QuickZoomPercents :
        /\ app = "map"
        /\ CountZoom
        /\ Done(set_zoom_percent(Entry, percent))

ClearTracking ==
    /\ app = "map"
    /\ Done(clear_tracking(Entry))
    /\ UNCHANGED <<nav, zsteps>>

\* the events of the grid viewer's window
NextGrid ==
    \/ LoadImage
    \/ LoadCancelled
    \/ ZoomIn
    \/ ZoomOut
    \/ Reset
    \/ Pan
    \/ PanIgnored
    \/ ToggleGrid
    \/ SetGridSize
    \/ GotoSector
    \/ GotoSectorRefused
    \/ GotoSectorInvalid

\* the events of the map viewer's window
NextMap ==
    \/ LoadImage
    \/ LoadCancelled
    \/ ZoomIn
    \/ ZoomOut
    \/ Reset
    \/ Pan
    \/ PanIgnored
    \/ ClickMap
    \/ ClickMapIgnored
    \/ SetZoomPercent
    \/ ClearTracking

\* the events of either window
Next ==
    \/ LoadImage
    \/ LoadCancelled
    \/ ZoomIn
    \/ ZoomOut
    \/ Reset
    \/ Pan
    \/ PanIgnored
    \/ ToggleGrid
    \/ SetGridSize
    \/ GotoSector
    \/ GotoSectorRefused
    \/ GotoSectorInvalid
    \/ ClickMap
    \/ ClickMapIgnored
    \/ SetZoomPercent
    \/ ClearTracking

Spec == Init /\ [][Next]_vars

\* one viewer at a time
InitGrid == Init /\ app = "grid"
InitMap == Init /\ app = "map"
SpecGrid == InitGrid /\ [][NextGrid]_vars
SpecMap == InitMap /\ [][NextMap]_vars

(* ------------------------------- claims ------------------------------- *)
\* x < y for mixed numbers
QLess(x, y) == x.i < y.i \/ (x.i = y.i /\ FracLess(x.n, x.d, y.n, y.d))

\* an image is held: an OpenSlide handle or a decoded flat image
ImageHeld == slide \/ image.some

\* offset + extent <= limit
WithinLimit(offset, extent, limit) ==
    offset.i + extent < limit \/ (offset.i + extent = limit /\ offset.n = 0)

\* C1: on a loaded image, the region read that update_view issued uses the
\* rectangle (offset_x, offset_y, view_w, view_h) with offset_x >= 0,
\* offset_y >= 0, offset_x + view_w <= image width and
\* offset_y + view_h <= image height, in both viewers.
ReadRectangleInBounds ==
    (last_read.issued /\ ImageHeld) =>
        /\ last_read.x = offset_x
        /\ last_read.y = offset_y
        /\ last_read.width > 0
        /\ last_read.height > 0
        /\ offset_x.i >= 0
        /\ offset_y.i >= 0
        /\ WithinLimit(offset_x, last_read.width, slide_dimensions[1])
        /\ WithinLimit(offset_y, last_read.height, slide_dimensions[2])

\* C1 witness: a read whose rectangle was pushed back to the right and bottom
\* edges of the image: it ends exactly on both edges, away from the origin.
ReadAtFarCorner ==
    /\ last_read.issued /\ ~last_read.raises /\ ImageHeld
    /\ offset_x.i > 0 /\ offset_y.i > 0
    /\ offset_x.n = 0 /\ offset_y.n = 0
    /\ offset_x.i + last_read.width = slide_dimensions[1]
    /\ offset_y.i + last_read.height = slide_dimensions[2]

\* C2 (as claimed): whenever no image is held, which after start-up is so
\* only after a failed load, the viewer is in the "no image" state: the
\* dimensions are (0, 0), no handle and no flat image remain, no read has
\* raised, and zoom in, zoom out, reset, pan and go-to-sector change nothing
\* and raise nothing.
FailedLoadLeavesNoImage ==
    ~ImageHeld =>
        /\ slide_dimensions = <<0, 0>>
        /\ ~use_openslide
        /\ ~last_read.raises
        /\ \A r \in {zoom_in(Entry), zoom_out(Entry), reset(Entry)}
                    \cup {pan(Entry, d) : d \in PanDeltas(app)}
                    \cup {goto_sector(Entry, TRUE, in[1], in[2]) : in \in SectorInputs} :
              /\ ~r.raised
              /\ ~r.last_read.issued
              /\ r.zoom = zoom /\ r.offset_x = offset_x /\ r.offset_y = offset_y

\* C2 witness of the failure: after a failed load the old dimensions are
\* still there, a zoom event changed the zoom and its read raised on the
\* missing image.
ZoomRaisedOnMissingImage ==
    /\ ~ImageHeld
    /\ slide_dimensions # <<0, 0>>
    /\ last_read.issued /\ last_read.raises
    /\ zoom # <<1, 1>>

\* column or row outside [0, max_cols) x [0, max_rows)
SectorOutOfRange(col, row) ==
    col < 0 \/ col >= max_cols \/ row < 0 \/ row >= max_rows

\* C3: with an image loaded, goto_sector with a column outside [0, max_cols)
\* or a row outside [0, max_rows) reports a bounds error, leaves offset_x,
\* offset_y, zoom, grid_size and show_grid unchanged and triggers no refresh.
GotoSectorOutOfRangeRefused ==
    (app = "grid" /\ Loaded) =>
        \A in \in SectorInputs :
            SectorOutOfRange(in[1], in[2]) =>
                LET r == goto_sector(Entry, TRUE, in[1], in[2])
                IN  /\ r.report = "bounds_error"
                    /\ ~r.raised
                    /\ ~r.last_read.issued
                    /\ r.offset_x = offset_x
                    /\ r.offset_y = offset_y
                    /\ r.zoom = zoom
                    /\ r.grid_size = grid_size
                    /\ r.show_grid = show_grid
                    /\ r.max_cols = max_cols
                    /\ r.max_rows = max_rows

\* C3 witness: the view was moved and zoomed, the last handler refreshed
\* nothing, and a typed sector is refused with the bounds error here.
GotoSectorRefusedAwayFromOrigin ==
    /\ app = "grid" /\ Loaded /\ ImageHeld
    /\ offset_x.i > 0 /\ zoom # <<1, 1>>
    /\ ~last_read.issued
    /\ \E in \in SectorInputs :
          /\ in[1] = max_cols
          /\ goto_sector(Entry, TRUE, in[1], in[2]).report = "bounds_error"

\* offset + (canvas / zoom) / 2: the image coordinate at the canvas centre
ViewCentre(offset, canvas) == QAdd(offset, Frac(canvas * zoom[2], 2 * zoom[1]))

\* the view centre is c2/2, or the offset sits on the limit that stops it
CentredOrClamped(offset, c2, canvas, hi) ==
    LET c == Frac(c2, 2)
        v == ViewCentre(offset, canvas)
    IN  \/ v = c
        \/ offset = IntQ(0) /\ QLess(c, v)
        \/ offset = IntQ(hi) /\ QLess(v, c)

\* C4: with an image loaded, goto_sector(col, row) for 0 <= col < max_cols
\* and 0 <= row < max_rows leaves zoom alone and sets the offset so that the
\* view centre offset + (canvas / zoom) / 2 is
\* (col*grid_size + grid_size/2, row*grid_size + grid_size/2), or, when that
\* offset lies outside [0, image dimension - view size], the nearer end of it.
GotoSectorCentres ==
    (app = "grid" /\ Loaded) =>
        \A in \in SectorInputs :
            ~SectorOutOfRange(in[1], in[2]) =>
                LET r == goto_sector(Entry, TRUE, in[1], in[2])
                    view_w == Min((Canvas[1] * zoom[2]) \div zoom[1], slide_dimensions[1])
                    view_h == Min((Canvas[2] * zoom[2]) \div zoom[1], slide_dimensions[2])
                IN  /\ r.zoom = zoom
                    /\ r.grid_size = grid_size
                    /\ r.last_read.issued
                    /\ CentredOrClamped(r.offset_x, 2 * in[1] * grid_size + grid_size,
                                        Canvas[1], slide_dimensions[1] - view_w)
                    /\ CentredOrClamped(r.offset_y, 2 * in[2] * grid_size + grid_size,
                                        Canvas[2], slide_dimensions[2] - view_h)

\* C4 witness: the 20000 x 15000 image with grid size 5000 after
\* goto_sector(2, 1): the view is centred on (12500, 7500).
ViewCentredOnSector21 ==
    /\ app = "grid" /\ last_read.issued /\ ~last_read.raises
    /\ slide_dimensions = <<20000, 15000>>
    /\ grid_size = 5000 /\ max_cols = 4 /\ max_rows = 3
    /\ ViewCentre(offset_x, Canvas[1]) = IntQ(12500)
    /\ ViewCentre(offset_y, Canvas[2]) = IntQ(7500)

\* C5: the zoom stays within [0.05, 10.0]; with an image loaded, zoom_in
\* leaves min(zoom * 1.5, 10.0) and zoom_out leaves max(zoom / 1.5, 0.05),
\* so at 10.0 zoom_in stays at 10.0 and at 0.05 zoom_out stays at 0.05.
ZoomStaysInRange ==
    /\ zoom[1] > 0 /\ zoom[2] > 0
    /\ 20 * zoom[1] >= zoom[2]
    /\ zoom[1] <= 10 * zoom[2]
    /\ Loaded =>
        /\ zoom_in(Entry).zoom = IF 3 * zoom[1] > 20 * zoom[2] THEN <<10, 1>>
                                 ELSE ZReduce(3 * zoom[1], 2 * zoom[2])
        /\ zoom_out(Entry).zoom = IF 40 * zoom[1] < 3 * zoom[2] THEN <<1, 20>>
                                  ELSE ZReduce(2 * zoom[1], 3 * zoom[2])
        /\ zoom = <<10, 1>> => zoom_in(Entry).zoom = <<10, 1>>
        /\ zoom = <<1, 20>> => zoom_out(Entry).zoom = <<1, 20>>

\* C5 witness: repeated zoom-in from 1.0 has reached exactly 10.0, where
\* 1.5 times the zoom before it (7.59375) would have been above the cap.
ZoomSaturatedAtMax ==
    /\ Loaded /\ ImageHeld /\ last_read.issued
    /\ zoom = <<10, 1>>
    /\ zoom_out(Entry).zoom = <<20, 3>>
    /\ zoom_in(Entry).zoom = <<10, 1>>

\* abs(downsample - 1/zoom) of level k, times the numerator of zoom
TargetGap(k) ==
    LET v == level_downsamples[k + 1] * zoom[1] - zoom[2]
    IN  IF v < 0 THEN -v ELSE v

\* C6: on a pyramidal image get_best_level(zoom) is the level whose
\* downsample has the least absolute difference from 1/zoom, the lowest
\* index among the levels with that least difference; on a flat image it is
\* 0; and it is the level of the read that update_view issued.
BestLevelIsLowestArgmin ==
    LET level == get_best_level(Self, zoom)
    IN  /\ ~use_openslide => level = 0
        /\ use_openslide =>
              /\ level \in 0..(level_count - 1)
              /\ \A k \in 0..(level_count - 1) :
                    /\ TargetGap(level) <= TargetGap(k)
                    /\ TargetGap(k) = TargetGap(level) => level <= k
        /\ last_read.issued => last_read.level = level

\* C6 witness: a read on a pyramid at a zoom where a higher level is exactly
\* as close to 1/zoom as the level that was read.
TieReadAtLowerLevel ==
    /\ use_openslide /\ last_read.issued
    /\ \E k \in 0..(level_count - 1) :
          /\ k > last_read.level
          /\ TargetGap(k) = TargetGap(last_read.level)

\* C7 (as claimed): for adjacent levels i-1 and i with downsamples a < b, the
\* selector picks a level up to i-1 exactly when zoom is at or above the
\* midpoint of 1/a and 1/b, that is zoom >= (a + b) / (2ab).
SwitchAtMidpointOfInverseDownsamples ==
    use_openslide =>
        \A i \in 1..(level_count - 1) :
            LET a == level_downsamples[i]
                b == level_downsamples[i + 1]
            IN  (get_best_level(Self, zoom) <= i - 1)
                    <=> (2 * a * b * zoom[1] >= (a + b) * zoom[2])

\* C7 (amended): for adjacent levels i-1 and i with downsamples a < b, the
\* selector picks a level up to i-1 exactly when 1/zoom is at or below the
\* midpoint of a and b, that is zoom >= 2 / (a + b); at that zoom itself the
\* lower index is picked.
SwitchAtMidpointOfDownsamples ==
    use_openslide =>
        \A i \in 1..(level_count - 1) :
            LET a == level_downsamples[i]
                b == level_downsamples[i + 1]
            IN  (get_best_level(Self, zoom) <= i - 1)
                    <=> ((a + b) * zoom[1] >= 2 * zoom[2])

\* C7 witness: a read at the lower of two adjacent levels at a zoom that is
\* at or above 2 / (a + b) and below (a + b) / (2ab).
LowerLevelReadBelowInverseMidpoint ==
    /\ use_openslide /\ last_read.issued
    /\ \E i \in 1..(level_count - 1) :
          LET a == level_downsamples[i]
              b == level_downsamples[i + 1]
          IN  /\ last_read.level = i - 1
              /\ (a + b) * zoom[1] >= 2 * zoom[2]
              /\ 2 * a * b * zoom[1] < (a + b) * zoom[2]

\* round(zoom * 100), halves to the even integer
RoundedZoomPercent ==
    LET p == 100 * zoom[1]
        f == p \div zoom[2]
        r == p % zoom[2]
    IN  IF 2 * r < zoom[2] THEN f
        ELSE IF 2 * r > zoom[2] THEN f + 1
        ELSE IF f % 2 = 0 THEN f ELSE f + 1

\* the bucket nearest to percent, the earlier one of two equally near
NearestBucket(percent) ==
    CHOOSE b \in {10, 40, 60, 80} :
        \A c \in {10, 40, 60, 80} :
            \/ Abs(b - percent) < Abs(c - percent)
            \/ Abs(b - percent) = Abs(c - percent) /\ b <= c

\* the tracking cell under the top-left corner of the view
OriginCell ==
    <<Trunc(offset_x) \div grid_cell_size, Trunc(offset_y) \div grid_cell_size>>

\* C8 (as claimed): after every view refresh of the map viewer the cells
\* under the view are visited in the grid of the bucket of [10, 40, 60, 80]
\* nearest to round(zoom * 100), the earlier bucket on ties.
RefreshMarksBucketOfRoundedPercent ==
    (app = "map" /\ Loaded /\ last_read.issued) =>
        OriginCell \in tracking_grids[NearestBucket(RoundedZoomPercent)].cells

\* C8 witness of the failure: at zoom 0.50625 (10% zoomed in four times)
\* round(zoom * 100) is 51, nearest to 60, and the refresh marked bucket 40.
Refresh51PercentMarkedBucket40 ==
    /\ app = "map" /\ Loaded /\ ImageHeld /\ last_read.issued
    /\ zoom = <<81, 160>>
    /\ RoundedZoomPercent = 51
    /\ NearestBucket(RoundedZoomPercent) = 60
    /\ OriginCell \in tracking_grids[40].cells
    /\ OriginCell \notin tracking_grids[60].cells

\* the cells of bucket's grid from offset // cell to
\* (offset + canvas / zoom) // cell on each axis
ViewCells(bucket) ==
    LET g == tracking_grids[bucket]
        far_x == FloorSum(offset_x, Frac(Canvas[1] * zoom[2], zoom[1]))
        far_y == FloorSum(offset_y, Frac(Canvas[2] * zoom[2], zoom[1]))
    IN  {c \in (0..(g.w - 1)) \X (0..(g.h - 1)) :
            /\ Trunc(offset_x) \div grid_cell_size <= c[1]
            /\ c[1] <= far_x \div grid_cell_size
            /\ Trunc(offset_y) \div grid_cell_size <= c[2]
            /\ c[2] <= far_y \div grid_cell_size}

\* C9: mark_visited adds to the selected bucket's grid exactly the cells of
\* the inclusive rectangle [offset // cell, (offset + canvas/zoom) // cell]
\* per axis, clamped to the grid, and leaves the other three grids as they
\* were; after a refresh those cells are visited.
MarkVisitedSetsViewCells ==
    (app = "map" /\ Loaded) =>
        LET bucket == get_tracking_level(ZoomPercent(zoom))
            r == mark_visited(Self)
        IN  /\ r.tracking_grids[bucket] =
                  [tracking_grids[bucket] EXCEPT !.cells = @ \cup ViewCells(bucket)]
            /\ \A b \in DOMAIN tracking_grids \ {bucket} :
                  r.tracking_grids[b] = tracking_grids[b]
            /\ last_read.issued => ViewCells(bucket) \subseteq tracking_grids[bucket].cells

\* C9 witness: a refresh away from the origin marked a rectangle of several
\* cells in one bucket while another bucket's grid holds other cells.
ViewCellsMarkedAwayFromOrigin ==
    /\ app = "map" /\ Loaded /\ last_read.issued /\ ~last_read.raises
    /\ offset_x.i >= grid_cell_size
    /\ LET bucket == get_tracking_level(ZoomPercent(zoom))
       IN  /\ Cardinality(ViewCells(bucket)) >= 2
           /\ tracking_grids[bucket].cells = ViewCells(bucket)
           /\ \E b \in DOMAIN tracking_grids \ {bucket} :
                 /\ tracking_grids[b].cells # {}
                 /\ tracking_grids[b].cells # ViewCells(bucket)

\* C10: while one image stays loaded the tracking grids only grow: every
\* step other than a load and clear-tracking keeps each visited cell of each
\* bucket's grid visited.
VisitedCellsStayVisited ==
    [][\/ \A b \in DOMAIN tracking_grids :
             tracking_grids[b].cells \subseteq tracking_grids'[b].cells
       \/ ClearTracking
       \/ LoadImage]_vars

\* C10 witness: after a refresh the current bucket's grid still holds a
\* visited cell that the view no longer covers.
VisitedCellOutsideTheView ==
    /\ app = "map" /\ Loaded /\ last_read.issued /\ ~last_read.raises
    /\ LET bucket == get_tracking_level(ZoomPercent(zoom))
       IN  tracking_grids[bucket].cells \ ViewCells(bucket) # {}

\* C11: clear_tracking leaves every cell of every bucket's grid unvisited,
\* the cells under the view included, keeps the grids' shapes, and the map
\* it renders has no overlay rectangle; with an image held it renders the
\* map and reports that tracking was cleared.
ClearTrackingLeavesNothingVisited ==
    app = "map" =>
        LET r == clear_tracking(Entry)
        IN  /\ \A b \in DOMAIN tracking_grids :
                  /\ r.tracking_grids[b].cells = {}
                  /\ r.tracking_grids[b].alloc = tracking_grids[b].alloc
                  /\ r.tracking_grids[b].w = tracking_grids[b].w
                  /\ r.tracking_grids[b].h = tracking_grids[b].h
            /\ r.map_drawn => r.overlay = {}
            /\ ImageHeld => (r.map_drawn /\ ~r.raised /\ r.report = "cleared")
            /\ r.zoom = zoom /\ r.offset_x = offset_x /\ r.offset_y = offset_y

\* C11 witness: an image is held, the view was moved and zoomed (every
\* refresh marks the cells under it), and no grid holds a visited cell:
\* clear_tracking has run; run again here it draws a map without overlay.
TrackingClearedUnderTheView ==
    /\ app = "map" /\ Loaded /\ ImageHeld
    /\ zoom # <<1, 1>> /\ offset_x.i > 0
    /\ ~last_read.issued
    /\ \A b \in DOMAIN tracking_grids :
          tracking_grids[b].alloc /\ tracking_grids[b].cells = {}
    /\ clear_tracking(Entry).map_drawn
    /\ clear_tracking(Entry).overlay = {}

\* ceil(a / b) for a >= 0, b > 0
CeilDiv(a, b) == IF a % b = 0 THEN a \div b ELSE (a \div b) + 1

\* C12 (as claimed): with an image loaded, each tracking bucket's grid has
\* exactly ceil(imageWidth / trackingCellSize) columns and
\* ceil(imageHeight / trackingCellSize) rows.
TrackingGridShapeIsCeil ==
    (app = "map" /\ Loaded /\ ImageHeld) =>
        \A b \in DOMAIN tracking_grids :
            /\ tracking_grids[b].alloc
            /\ tracking_grids[b].w = CeilDiv(slide_dimensions[1], grid_cell_size)
            /\ tracking_grids[b].h = CeilDiv(slide_dimensions[2], grid_cell_size)

\* C12 witness of the failure: on an image whose width is a multiple of the
\* cell size the grid has one column more than ceil gives, and a cell of
\* that column, which covers no image pixel, is visited.
CellBeyondImageVisited ==
    /\ app = "map" /\ Loaded /\ ImageHeld
    /\ slide_dimensions[1] % grid_cell_size = 0
    /\ \E b \in DOMAIN tracking_grids :
          /\ tracking_grids[b].w = (slide_dimensions[1] \div grid_cell_size) + 1
          /\ \E c \in tracking_grids[b].cells :
                c[1] * grid_cell_size >= slide_dimensions[1]

\* x + v <= limit for mixed numbers x, v in lowest terms
SumWithin(x, v, limit) ==
    \/ FloorSum(x, v) < limit
    \/ /\ FloorSum(x, v) = limit
       /\ \/ x.n = 0 /\ v.n = 0
          \/ x.d = v.d /\ x.n + v.n = x.d

\* canvas / zoom, the extent of the canvas in image pixels
CanvasExtent(canvas) == Frac(canvas * zoom[2], zoom[1])

ViewportOperationResults ==
    {zoom_in(Entry), zoom_out(Entry), reset(Entry)}
    \cup {pan(Entry, d) : d \in PanDeltas(app)}
    \cup (IF app = "grid"
          THEN {toggle_grid(Entry)}
               \cup {set_grid_size(Entry, size) : size \in GridSizePresets}
               \cup {goto_sector(Entry, TRUE, in[1], in[2]) : in \in SectorInputs}
          ELSE {clear_tracking(Entry)}
               \cup {set_zoom_percent(Entry, percent) : percent \in QuickZoomPercents}
               \cup {click_map(Entry, e) : e \in ClickPoints})

\* C14 (as claimed): while no image is loaded every viewport operation
\* leaves zoom, offset, grid size, grid visibility and the tracking grids
\* as they were.
NoImageOperationsAreNoOps ==
    (~Loaded /\ ~ImageHeld) =>
        \A r \in ViewportOperationResults :
            /\ r.zoom = zoom
            /\ r.offset_x = offset_x
            /\ r.offset_y = offset_y
            /\ r.grid_size = grid_size
            /\ r.show_grid = show_grid
            /\ r.tracking_grids = tracking_grids

\* C14 witness of the failure: no image was ever loaded, yet the grid size
\* is no longer the initial one and the grid is hidden.
GridSettingsChangedWithoutImage ==
    /\ app = "grid"
    /\ slide_dimensions = <<0, 0>> /\ ~ImageHeld
    /\ grid_size # DefaultGridSize
    /\ ~show_grid

\* C15 (as claimed): at most one pyramidal handle is ever open, during a
\* load as well, because the held one is closed before the next open; and a
\* load that ends in failure leaves no handle, no image and no old
\* dimensions behind.
OneHandleAndCleanFailure ==
    /\ open_handles \in {0, 1}
    /\ peak_handles <= 1
    /\ slide <=> open_handles = 1
    /\ \A f \in Files(app) :
          LET r == load_image(Entry, f)
          IN  /\ r.peak_handles <= 1
              /\ r.open_handles \in {0, 1}
              /\ r.report = "load_error" =>
                    /\ r.open_handles = 0
                    /\ ~r.slide
                    /\ ~r.image.some
                    /\ ~r.use_openslide
                    /\ r.slide_dimensions = <<0, 0>>

\* C15 witness of the failure: a load failed after a pyramidal image was
\* open: its handle is closed and no image is held, but the dimensions and
\* the pyramid levels of the old slide are still in place.
OldPyramidDataWithoutHandle ==
    /\ ~slide /\ ~image.some /\ ~use_openslide
    /\ open_handles = 0 /\ peak_handles <= 1
    /\ slide_dimensions # <<0, 0>>
    /\ level_count > 0
    /\ ~last_read.issued

\* C16 (as claimed): a load reports an error exactly when the pyramidal
\* open did not succeed and the flat decode fails; when the pyramidal open
\* fails, in whatever way, and the flat decode succeeds, the load succeeds
\* on the flat path.
LoadErrorOnlyWhenBothFail ==
    \A f \in Files(app) :
        LET r == load_image(Entry, f)
            pyramidal == OPENSLIDE_AVAILABLE /\ f.wsi /\ f.pyr = "ok"
        IN  /\ r.report = "load_error" <=> (~pyramidal /\ f.flat # "ok")
            /\ (~pyramidal /\ f.flat = "ok") =>
                  /\ r.report = "success"
                  /\ r.image.some /\ ~r.use_openslide /\ ~r.slide
                  /\ r.slide_dimensions = f.dims

\* C16 witness of the failure: an image is held and viewed, and loading a
\* file whose pyramidal open raises something other than OpenSlideError,
\* though its flat decode would succeed, reports an error and drops the image.
LoadOfDecodableFileReportsError ==
    /\ ImageHeld /\ Loaded /\ last_read.issued /\ zoom # <<1, 1>>
    /\ \E f \in Files(app) :
          /\ f.wsi /\ f.pyr \notin {"ok", "OpenSlideError"} /\ f.flat = "ok"
          /\ load_image(Entry, f).report = "load_error"
          /\ ~load_image(Entry, f).image.some

\* C17: in the grid viewer, with an image loaded, max_cols is
\* ceil(imageWidth / grid_size) and max_rows is ceil(imageHeight / grid_size)
\* for the current grid_size, whatever the order of loads and grid size
\* changes; set_grid_size leaves them so for the size it sets.
SectorCountsAreCeil ==
    (app = "grid" /\ Loaded) =>
        /\ max_cols = CeilDiv(slide_dimensions[1], grid_size)
        /\ max_rows = CeilDiv(slide_dimensions[2], grid_size)
        /\ \A size \in GridSizePresets :
              LET r == set_grid_size(Entry, size)
              IN  /\ r.grid_size = size
                  /\ r.max_cols = CeilDiv(slide_dimensions[1], size)
                  /\ r.max_rows = CeilDiv(slide_dimensions[2], size)
        /\ (slide_dimensions = <<20000, 15000>> /\ grid_size = 5000) =>
              (max_cols = 4 /\ max_rows = 3 /\ max_cols * max_rows = 12)

\* C17 witness: an image whose width and height are no multiples of a grid
\* size that is not the initial one: the last column and row are partial.
PartialLastSector ==
    /\ app = "grid" /\ Loaded /\ ImageHeld /\ last_read.issued
    /\ grid_size # DefaultGridSize
    /\ slide_dimensions[1] % grid_size # 0
    /\ slide_dimensions[2] % grid_size # 0
    /\ max_cols * grid_size > slide_dimensions[1]
    /\ (max_cols - 1) * grid_size < slide_dimensions[1]
    /\ max_rows * grid_size > slide_dimensions[2]

\* clamp(x, 0, hi) for mixed numbers x and hi >= 0
QClamp(x, hi) ==
    IF x.i < 0 THEN IntQ(0) ELSE IF QLess(hi, x) THEN hi ELSE x

\* delta / zoom in the current state
DeltaInImage(delta) == Frac(delta * zoom[2], zoom[1])

\* imageDim - min(canvasSize / zoom, imageDim), nothing truncated
EdgeLimitExact(canvas, dim) ==
    IF canvas * zoom[2] >= dim * zoom[1] THEN IntQ(0)
    ELSE Frac(dim * zoom[1] - canvas * zoom[2], zoom[1])

\* imageDim - min(int(canvasSize / zoom), imageDim)
EdgeLimitWhole(canvas, dim) ==
    IntQ(dim - Min(Trunc(CanvasExtent(canvas)), dim))

\* the drags whose sums stay within the arithmetic of the model
AddablePans ==
    {d \in PanDeltas(app) : /\ CanAdd(offset_x, DeltaInImage(d[1]))
                            /\ CanAdd(offset_y, DeltaInImage(d[2]))}

Half(x) == QAdd(Frac(x.i, 2), Frac(x.n, 2 * x.d))

\* the rectangle of this offset can be written within the model's arithmetic
CanDraw(x, s) == x.d <= (MaxDen \div 2) \div (s[2] * zoom[1])

\* the centre of the viewport rectangle on the map canvas, on one axis
RectCentreX == LET r == update_viewport_rect(Entry) IN QAdd(Half(r.x1), Half(r.x2))
RectCentreY == LET r == update_viewport_rect(Entry) IN QAdd(Half(r.y1), Half(r.y2))

\* the thumbnail point of a canvas coordinate, over the scale: (at - start) / scale
ThumbPointInImage(at, extent, scale) ==
    LET m == QAdd(IntQ(at), Frac(extent - 2 * MapCenter, 2))
    IN  Scaled(m, <<scale[2], scale[1]>>)

\* offset for a view centred on c: c - (canvas / zoom) / 2
CentredOn(c, canvas) == QAdd(c, Frac(-(canvas * zoom[2]), 2 * zoom[1]))

\* C19: with the map drawn, a click on the map at thumbnail point (mx, my)
\* sets each offset to the clamp of mx / map_scale_x - (canvas / zoom) / 2
\* (my, map_scale_y on the other axis), the offset of a view centred on the
\* image point of the click; a click whose coordinate is the centre of the
\* drawn viewport rectangle on an axis leaves the offset of that axis as it
\* was, and zoom is not touched.
ClickMapCentresAndRoundTrips ==
    (app = "map" /\ Loaded /\ ImageHeld /\ map_thumbnail.some) =>
        /\ \A e \in ClickPoints :
              LET r == click_map(Entry, e)
                  img_x == ThumbPointInImage(e[1], map_thumbnail.width, map_scale_x)
                  img_y == ThumbPointInImage(e[2], map_thumbnail.height, map_scale_y)
              IN  /\ r.zoom = zoom
                  /\ r.offset_x = QClamp(CentredOn(img_x, Canvas[1]),
                                         EdgeLimitWhole(Canvas[1], slide_dimensions[1]))
                  /\ r.offset_y = QClamp(CentredOn(img_y, Canvas[2]),
                                         EdgeLimitWhole(Canvas[2], slide_dimensions[2]))
        /\ (CanDraw(offset_x, map_scale_x) /\ RectCentreX.n = 0) =>
              \A e \in ClickPoints :
                  click_map(Entry, <<RectCentreX.i, e[2]>>).offset_x = offset_x
        /\ (CanDraw(offset_y, map_scale_y) /\ RectCentreY.n = 0) =>
              \A e \in ClickPoints :
                  click_map(Entry, <<e[1], RectCentreY.i>>).offset_y = offset_y

\* C19 witness: the view lies strictly inside the image on both axes, away
\* from every edge, at a zoom other than 1; the centre of the drawn
\* rectangle is a pixel of the map canvas, and a click there leaves both
\* offsets while a click elsewhere moves the view.
ClickAtRectCentreKeepsView ==
    /\ app = "map" /\ Loaded /\ ImageHeld /\ map_thumbnail.some /\ last_read.issued
    /\ zoom # <<1, 1>>
    /\ QLess(IntQ(0), offset_x) /\ QLess(IntQ(0), offset_y)
    /\ QLess(offset_x, EdgeLimitWhole(Canvas[1], slide_dimensions[1]))
    /\ QLess(offset_y, EdgeLimitWhole(Canvas[2], slide_dimensions[2]))
    /\ CanDraw(offset_x, map_scale_x) /\ CanDraw(offset_y, map_scale_y)
    /\ RectCentreX.n = 0 /\ RectCentreY.n = 0
    /\ LET r == click_map(Entry, <<RectCentreX.i, RectCentreY.i>>)
       IN  /\ r.offset_x = offset_x /\ r.offset_y = offset_y
           /\ r.last_read.issued /\ r.map_drawn
    /\ \E e \in ClickPoints : click_map(Entry, e).offset_x # offset_x

\* m is a nearest whole number to v * zoom, whichever way a tie goes
NearestToZoomed(m, v) ==
    2 * Abs(m * zoom[2] - v * zoom[1]) <= zoom[2]

\* C20 (as claimed): a region read that update_view issued on a pyramidal
\* source uses the level the level selector gives for the zoom, requests the
\* crop (width / downsample, height / downsample) in whole pixels, and
\* resizes it to round(width * zoom) x round(height * zoom).
ReadRescalesToRoundedSize ==
    (last_read.issued /\ ~last_read.raises /\ use_openslide) =>
        LET downsample == level_downsamples[last_read.level + 1]
        IN  /\ last_read.level = get_best_level(Self, zoom)
            /\ last_read.size = <<last_read.width \div downsample,
                                  last_read.height \div downsample>>
            /\ NearestToZoomed(last_read.target[1], last_read.width)
            /\ NearestToZoomed(last_read.target[2], last_read.height)

\* C20 witness: a pyramidal read at a level above 0 whose width * zoom lies
\* more than a half above a whole number; the resize target is that whole
\* number, one less than the rounded value.
ReadTargetOneBelowRounded ==
    /\ last_read.issued /\ ~last_read.raises /\ use_openslide /\ slide
    /\ last_read.level > 0
    /\ last_read.size[1] < last_read.width
    /\ last_read.target[1] = (last_read.width * zoom[1]) \div zoom[2]
    /\ 2 * ((last_read.width * zoom[1]) % zoom[2]) > zoom[2]
    /\ ~NearestToZoomed(last_read.target[1], last_read.width)
    /\ NearestToZoomed(last_read.target[1] + 1, last_read.width)

====
